---- MODULE Spec2Model ----
(***************************************************************************)
(* Model of the crawl orchestration of knowledge-graph-base/web-crawler:   *)
(*   - BaseCrawler.crawl, the breadth-first traversal (base_crawler.py);   *)
(*   - BFSCrawler._visit_url, the page visitor of BFS mode                 *)
(*     (bfs_crawler.py);                                                   *)
(*   - InteractiveCrawler.crawl with its page visitor                      *)
(*     (interactive_crawler.py, domain/graph.py);                          *)
(*   - CrawlGraph, its three adding methods and its serialization          *)
(*     (domain/graph.py).                                                  *)
(* The page driver is the environment: every driver operation may fail.    *)
(* The reporting sink (CrawlVisualizer) is modelled by the list of reports *)
(* it receives; it accepts every report, except in ReporterSpec, where any *)
(* of its calls may raise.                                                 *)
(* Module loading is outside the model: each function is modelled with the *)
(* names bound as the import statements of its file bind them.             *)
(***************************************************************************)
EXTENDS Integers, Sequences, FiniteSets, TLC

VARIABLES
    \* ---- BaseCrawler.crawl ----
    links,      \* the site: links[u] is the set page_data["links"] of page u
    start_url,  \* argument of crawl
    max_depth,  \* self.max_depth
    queue,      \* the deque of (url, depth)
    visited,    \* self.visited
    graph,      \* self.graph : url -> page_data
    referrers,  \* self.referrers : url -> set of urls
    calls,      \* history: number of _process_page(u) calls
    failed,     \* history: urls whose _process_page returned (False, None)
    enqueued,   \* history: number of times u was appended to the queue
    sink_raised, \* history: the calls of the reporting sink that raised
    pc          \* "loop" | "returned" | "raised"

bfsVars == <<links, start_url, max_depth, queue, visited, graph, referrers,
             calls, failed, enqueued, sink_raised, pc>>

VARIABLES
    \* ---- BFSCrawler._visit_url ----
    v_url,        \* argument of _visit_url
    drv,          \* the driver: drv[i] is what happens at the i-th attempt
    current_try,  \* local current_try
    nav_attempts, \* history: number of driver.get calls
    reports,      \* the calls received by the reporting sink, in order
    sleeps,       \* history: the time.sleep durations, in order
    v_result,     \* return value: "none" while running, then TRUE or FALSE
    v_pc          \* "loop" | "done"

visitVars == <<v_url, drv, current_try, nav_attempts, reports, sleeps, v_result, v_pc>>

VARIABLES
    \* ---- InteractiveCrawler.crawl ----
    dm,               \* the decision maker: the answers it will give, in order
    dm_calls,         \* history: number of decide_next_action calls
    executed,         \* history: the decisions executed with success
    n_shots,          \* the site: number of screenshot sections of a page
    g_pages,          \* graph.pages : page_id -> Page
    g_states,         \* graph.states : state_id -> PageState
    g_edges,          \* graph.edges
    g_visited_states, \* graph.visited_states
    current_state,    \* local current_state ("None" or a state_id)
    page_files,       \* the files of repository.pages_dir: name -> content
    processed,        \* history: _process_page(start_url) returned (True, page)
    i_pc              \* "visit" | "shot" | "page" | "seed" | "returned" | "raised"

interVarsButPc == <<dm, dm_calls, executed, n_shots, g_pages, g_states, g_edges,
                    g_visited_states, current_state, page_files, processed>>
interVars == <<dm, dm_calls, executed, n_shots, g_pages, g_states, g_edges,
               g_visited_states, current_state, page_files, processed, i_pc>>

VARIABLES
    \* ---- a single operation applied to given arguments ----
    u_arg,   \* the arguments and the environment of the operation
    u_res,   \* what the operation has returned or recorded so far
    u_pc     \* "idle", or the position in the calls applied

unitVars == <<u_arg, u_res, u_pc>>

vars == <<bfsVars, visitVars, interVars, unitVars>>

----------------------------------------------------------------------------
\* Bounds of the model
URLs == {"A", "B", "C", "D"}
MaxSiteLinks == 4
MaxDepthBound == 2

\* The site graphs: at most MaxSiteLinks links in the whole site
Sites ==
    {s \in [URLs -> SUBSET URLs] :
        Cardinality({e \in URLs \X URLs : e[2] \in s[e[1]]}) <= MaxSiteLinks}

\* All orders in which the elements of a set can be iterated
Perms(S) ==
    {s \in [1..Cardinality(S) -> S] : \A i, j \in 1..Cardinality(S) : i # j => s[i] # s[j]}

\* a dict as a function on its key set
EmptyDict == [u \in {} |-> {}]
Put(d, k, v) == [u \in (DOMAIN d) \cup {k} |-> IF u = k THEN v ELSE d[u]]

----------------------------------------------------------------------------
\* BaseCrawler.crawl (base_crawler.py)

Entry(u, d) == [url |-> u, depth |-> d]

\* line 16: queue.popleft() leaves the rest of the deque
PopLeft_forgotten(q) == q
PopLeft(q) == Tail(q)

\* line 17: if url in self.visited
IsVisited_graphOnly(u) == u \in DOMAIN graph
IsVisited(u) == u \in visited

\* line 35: if depth < self.max_depth
ShouldEnqueue_inclusive(depth) == depth <= max_depth
ShouldEnqueue(depth) == depth < max_depth

\* lines 42-48: _update_referrers(url, queue, start_url); q is the deque
\* after the popleft of line 16
UpdateReferrers(u, q) ==
    IF u \in DOMAIN graph
    THEN LET current_referrer == IF q # << >> THEN q[Len(q)].url ELSE start_url
             old == IF u \in DOMAIN referrers THEN referrers[u] ELSE {}
         IN  Put(referrers, u, old \cup {current_referrer})
    ELSE referrers

\* lines 36-38: the links of the page in iteration order `order`, those
\* not in `vis` (self.visited, which holds the page itself since line 21)
\* appended at depth + 1
RECURSIVE EnqueueLinks(_, _, _, _)
EnqueueLinks(q, order, depth, vis) ==
    IF order = << >> THEN q
    ELSE EnqueueLinks(IF Head(order) \notin vis
                      THEN Append(q, Entry(Head(order), depth + 1))
                      ELSE q,
                      Tail(order), depth, vis)

UnitIdle == u_arg = << >> /\ u_res = << >> /\ u_pc = "idle"

BfsIdle ==
    /\ links = [u \in URLs |-> {}] /\ start_url = "A" /\ max_depth = 0
    /\ queue = << >> /\ visited = {} /\ graph = EmptyDict /\ referrers = EmptyDict
    /\ calls = [u \in URLs |-> 0] /\ failed = {}
    /\ enqueued = [u \in URLs |-> 0] /\ sink_raised = {} /\ pc = "idle"

BfsStart ==
    /\ links \in Sites
    /\ start_url = "A"
    /\ max_depth \in 0..MaxDepthBound
    /\ queue = << Entry(start_url, 0) >>
    /\ visited = {}
    /\ graph = EmptyDict
    /\ referrers = EmptyDict
    /\ calls = [u \in URLs |-> 0]
    /\ failed = {}
    /\ enqueued = [u \in URLs |-> IF u = start_url THEN 1 ELSE 0]
    /\ sink_raised = {}
    /\ pc = "loop"

\* lines 15-19: the popped url was visited before
SkipVisited ==
    /\ pc = "loop" /\ queue # << >>
    /\ IsVisited(queue[1].url)
    /\ referrers' = UpdateReferrers(queue[1].url, PopLeft(queue))
    /\ queue' = PopLeft(queue)
    /\ UNCHANGED <<links, start_url, max_depth, visited, graph, calls, failed, enqueued, sink_raised, pc>>
    /\ UNCHANGED <<visitVars, interVars, unitVars>>

\* lines 15-26: first visit, _process_page returns (False, None)
VisitFail ==
    /\ pc = "loop" /\ queue # << >>
    /\ ~IsVisited(queue[1].url)
    /\ visited' = visited \cup {queue[1].url}
    /\ calls' = [calls EXCEPT ![queue[1].url] = @ + 1]
    /\ failed' = failed \cup {queue[1].url}
    /\ queue' = PopLeft(queue)
    /\ UNCHANGED <<links, start_url, max_depth, graph, referrers, enqueued, sink_raised, pc>>
    /\ UNCHANGED <<visitVars, interVars, unitVars>>

\* lines 15-24: first visit, _process_page raises (bfs_crawler.py 42-52:
\* driver.title and _extract_links are not guarded); crawl propagates
VisitRaise ==
    /\ pc = "loop" /\ queue # << >>
    /\ ~IsVisited(queue[1].url)
    /\ visited' = visited \cup {queue[1].url}
    /\ calls' = [calls EXCEPT ![queue[1].url] = @ + 1]
    /\ queue' = PopLeft(queue)
    /\ pc' = "raised"
    /\ UNCHANGED <<links, start_url, max_depth, graph, referrers, failed, enqueued, sink_raised>>
    /\ UNCHANGED <<visitVars, interVars, unitVars>>

\* lines 15-38: first visit, _process_page returns (True, page_data)
VisitOk ==
    /\ pc = "loop" /\ queue # << >>
    /\ ~IsVisited(queue[1].url)
    /\ LET u == queue[1].url
           depth == queue[1].depth
       IN  /\ visited' = visited \cup {u}
           /\ calls' = [calls EXCEPT ![u] = @ + 1]
           /\ graph' = Put(graph, u, [links |-> links[u]])
           /\ IF ShouldEnqueue(depth)
              THEN \E order \in Perms(links[u]) :
                     LET q1 == PopLeft(queue)
                         q2 == EnqueueLinks(q1, order, depth, visited \cup {u})
                     IN  /\ queue' = q2
                         /\ enqueued' = [v \in URLs |->
                               enqueued[v] + Cardinality({i \in (Len(q1)+1)..Len(q2) : q2[i].url = v})]
              ELSE /\ queue' = PopLeft(queue)
                   /\ UNCHANGED enqueued
    /\ UNCHANGED <<links, start_url, max_depth, referrers, failed, sink_raised, pc>>
    /\ UNCHANGED <<visitVars, interVars, unitVars>>

\* lines 15, 40: the deque is empty, crawl returns self.graph
Return ==
    /\ pc = "loop" /\ queue = << >>
    /\ pc' = "returned"
    /\ UNCHANGED <<links, start_url, max_depth, queue, visited, graph, referrers, calls, failed, enqueued, sink_raised>>
    /\ UNCHANGED <<visitVars, interVars, unitVars>>

BfsNext == SkipVisited \/ VisitFail \/ VisitRaise \/ VisitOk \/ Return

----------------------------------------------------------------------------
\* BaseCrawler.crawl with a reporting sink that may raise
\* (visualization_handler.py: every method opens the log file)

\* a call of the sink that raised; aborted: the exception left crawl
SinkRaise(op, u, aborted) == [op |-> op, url |-> u, aborted |-> aborted]

\* base_crawler.py 15-32, bfs_crawler.py 56-58: the visit succeeds, the
\* page is stored, update_progress raises; neither _notify_progress nor
\* crawl catches, so crawl is left before the links are enqueued
NotifyRaise ==
    /\ pc = "loop" /\ queue # << >>
    /\ ~IsVisited(queue[1].url)
    /\ LET u == queue[1].url
       IN  /\ visited' = visited \cup {u}
           /\ calls' = [calls EXCEPT ![u] = @ + 1]
           /\ graph' = Put(graph, u, [links |-> links[u]])
           /\ sink_raised' = sink_raised \cup {SinkRaise("update_progress", u, TRUE)}
    /\ queue' = PopLeft(queue)
    /\ pc' = "raised"
    /\ UNCHANGED <<links, start_url, max_depth, referrers, failed, enqueued>>
    /\ UNCHANGED <<visitVars, interVars, unitVars>>

\* base_crawler.py 15-26, bfs_crawler.py 34-36, 71-92, 102-105: the page
\* loads and the screenshot is taken, log_page_visit raises; the handler of
\* line 102 reports the error and _visit_url returns False, so the page
\* counts as failed
LogVisitRaise ==
    /\ pc = "loop" /\ queue # << >>
    /\ ~IsVisited(queue[1].url)
    /\ visited' = visited \cup {queue[1].url}
    /\ calls' = [calls EXCEPT ![queue[1].url] = @ + 1]
    /\ failed' = failed \cup {queue[1].url}
    /\ sink_raised' = sink_raised \cup {SinkRaise("log_page_visit", queue[1].url, FALSE)}
    /\ queue' = PopLeft(queue)
    /\ UNCHANGED <<links, start_url, max_depth, graph, referrers, enqueued, pc>>
    /\ UNCHANGED <<visitVars, interVars, unitVars>>

\* base_crawler.py 15-24, bfs_crawler.py 94-105: log_error raises inside
\* an except handler of _visit_url (line 98 after the last timeout, line
\* 104 after a failed screenshot or a failed log_page_visit); the
\* exception leaves _visit_url, _process_page and crawl
LogErrorRaise ==
    /\ pc = "loop" /\ queue # << >>
    /\ ~IsVisited(queue[1].url)
    /\ visited' = visited \cup {queue[1].url}
    /\ calls' = [calls EXCEPT ![queue[1].url] = @ + 1]
    /\ \E afterLogVisit \in BOOLEAN :
          sink_raised' = sink_raised
              \cup {SinkRaise("log_error", queue[1].url, TRUE)}
              \cup (IF afterLogVisit
                    THEN {SinkRaise("log_page_visit", queue[1].url, FALSE)}
                    ELSE {})
    /\ queue' = PopLeft(queue)
    /\ pc' = "raised"
    /\ UNCHANGED <<links, start_url, max_depth, graph, referrers, failed, enqueued>>
    /\ UNCHANGED <<visitVars, interVars, unitVars>>

ReporterNext ==
    SkipVisited \/ VisitFail \/ VisitRaise \/ VisitOk \/ Return
        \/ NotifyRaise \/ LogVisitRaise \/ LogErrorRaise

----------------------------------------------------------------------------
\* Properties of BaseCrawler.crawl

\* the pages reachable from `from` by following at most d links
RECURSIVE ReachableWithin(_, _)
ReachableWithin(from, d) ==
    IF d = 0 THEN {from}
    ELSE LET R == ReachableWithin(from, d - 1)
         IN  R \cup UNION {links[u] : u \in R}

\* C1: when crawl returns and every page visit succeeded, the keys of the
\* result graph are exactly the pages reachable from start_url by at most
\* max_depth links, whatever the order in which links were enqueued.
C1_VisitsExactlyReachable ==
    (pc = "returned" /\ failed = {}) =>
        DOMAIN graph = ReachableWithin(start_url, max_depth)

\* the scenario of the specification: A -> B, C; B -> D; max_depth = 2
C1_Witness ==
    /\ pc = "returned" /\ failed = {} /\ max_depth = 2
    /\ links = [u \in URLs |-> IF u = "A" THEN {"B", "C"}
                               ELSE IF u = "B" THEN {"D"} ELSE {}]
    /\ DOMAIN graph = {"A", "B", "C", "D"}

\* C2: every URL is handed to _process_page at most once during a crawl,
\* also when it was enqueued several times or when its visit failed.
C2_ProcessedAtMostOnce == \A u \in URLs : calls[u] <= 1

\* a URL enqueued twice whose only visit failed, all its entries consumed
C2_Witness ==
    \E u \in URLs : /\ enqueued[u] >= 2 /\ u \in failed /\ calls[u] = 1
                    /\ pc = "returned"

\* C3: provided every page visit returns (none raises), the frontier
\* eventually becomes empty and crawl returns.
C3_CrawlReturns ==
    ([](pc # "raised")) => <>(pc = "returned" /\ queue = << >>)

\* crawl has returned on a site with a cycle A -> B -> A and a self-link
C3_Witness ==
    /\ pc = "returned" /\ queue = << >> /\ max_depth = MaxDepthBound
    /\ "B" \in links["A"] /\ "A" \in links["B"] /\ "B" \in links["B"]
    /\ DOMAIN graph = {"A", "B"}

\* C4: after the crawl, referrers[P] contains every visited page that
\* links to the visited page P.
C4_ReferrerCompleteness ==
    pc = "returned" =>
        \A P \in DOMAIN graph : \A A, B \in DOMAIN graph :
            (A # B /\ A # P /\ B # P /\ P \in graph[A].links /\ P \in graph[B].links)
                => (P \in DOMAIN referrers /\ {A, B} \subseteq referrers[P])

\* C26: a URL whose visit failed is dropped and the traversal goes on: no
\* page is stored for it and it is handed to _process_page once only, also
\* when other pages link to it; the failing step enqueues nothing and
\* leaves crawl in its loop, which returns only with an empty frontier.
C26_FailedUrlDropped ==
    /\ [](\A u \in failed : u \notin DOMAIN graph /\ calls[u] = 1)
    /\ [](pc = "returned" => queue = << >>)
    /\ [][failed' # failed => (queue' = Tail(queue) /\ pc' = "loop")]_vars

\* B fails; its link D is never enqueued; C, which links to B as A does,
\* is stored and B is not tried again
C26_Witness ==
    /\ pc = "returned" /\ failed = {"B"} /\ "D" \in links["B"]
    /\ enqueued["D"] = 0 /\ enqueued["B"] = 2
    /\ DOMAIN graph = {"A", "C"}

\* C27: at every point of a crawl, every url r in referrers[u] is a stored
\* page whose links contain u.
C27_ReferrerSoundness ==
    \A u \in DOMAIN referrers : \A r \in referrers[u] :
        r \in DOMAIN graph /\ u \in graph[r].links

\* C18: no failure of a driver operation on one page is fatal: crawl, in
\* BFS mode and in interactive mode, returns its graph and never raises.
C18_NoFatalFailure == pc # "raised" /\ i_pc # "raised"

\* the order in which the anchors appear on the pages of the model's sites
DocumentOrder == <<"A", "B", "C", "D">>

\* bfs_crawler.py 254-262: _extract_links returns the hrefs of the anchors
\* of the page in document order
ExtractLinks(u) == SelectSeq(DocumentOrder, LAMBDA x : x \in links[u])

\* C19: the links of a page are enqueued in the order in which they were
\* discovered on the page: the step that stores a page at a depth below
\* max_depth appends its unvisited links in the order of _extract_links.
C19_DiscoveryOrderEnqueue ==
    [][ (pc = "loop" /\ queue # << >> /\ graph' # graph
            /\ ShouldEnqueue(queue[1].depth))
        => queue' = EnqueueLinks(PopLeft(queue), ExtractLinks(queue[1].url),
                                 queue[1].depth, visited') ]_vars

\* C17: a call of the reporting sink that raises never aborts the crawl,
\* and a raising log_page_visit never makes the visited page a failed one.
C17_ReporterFailureHarmless ==
    \A r \in sink_raised :
        /\ ~r.aborted
        /\ r.op = "log_page_visit" => r.url \notin failed

----------------------------------------------------------------------------
\* BFSCrawler._visit_url and _load_page (bfs_crawler.py)

\* line 62
max_retries == 3
\* line 100: time.sleep(2)
BackoffSeconds == 2

\* What the driver does at one attempt:
\*   "timeout"   driver.get raises TimeoutException
\*   "nav_error" driver.get (or implicitly_wait, execute_script) raises
\*               another exception
\*   "shot_fail" the page loads, _take_full_page_screenshot returns None
\*   "ok"        the page loads and the screenshot is taken
DriverOutcomes == {"timeout", "nav_error", "shot_fail", "ok"}
DriverScripts == [1..(max_retries + 1) -> DriverOutcomes]

\* lines 107-120: _load_page catches every exception of the driver and
\* returns False
LoadPage(outcome) == outcome \notin {"timeout", "nav_error"}

\* line 65: while current_try < max_retries
VisitLoopGuard(t) == t < max_retries

\* line 97: if current_try == max_retries
RetriesExhausted_early(t) == t = max_retries - 1
RetriesExhausted(t) == t = max_retries

\* line 98: f"Timeout after {max_retries} attempts"
TimeoutMessage == "Timeout after " \o ToString(max_retries) \o " attempts"

LogError(u, msg) == [op |-> "log_error", url |-> u, msg |-> msg]
LogPageVisit(u) == [op |-> "log_page_visit", url |-> u, msg |-> ""]

VisitIdle ==
    /\ v_url = "A" /\ drv = [i \in 1..(max_retries + 1) |-> "ok"]
    /\ current_try = 0 /\ nav_attempts = 0 /\ reports = << >> /\ sleeps = << >>
    /\ v_result = "none" /\ v_pc = "idle"

\* lines 60-63: _visit_url(url) is entered
VisitStart ==
    /\ v_url \in URLs /\ drv \in DriverScripts
    /\ current_try = 0 /\ nav_attempts = 0 /\ reports = << >> /\ sleeps = << >>
    /\ v_result = "none" /\ v_pc = "loop"

\* lines 65-72, 94-100: the load fails, _visit_url raises TimeoutException
\* itself, counts the try, backs off and loops
AttemptRetry ==
    /\ v_pc = "loop" /\ VisitLoopGuard(current_try)
    /\ ~LoadPage(drv[current_try + 1])
    /\ ~RetriesExhausted(current_try + 1)
    /\ nav_attempts' = nav_attempts + 1
    /\ current_try' = current_try + 1
    /\ sleeps' = Append(sleeps, BackoffSeconds)
    /\ UNCHANGED <<v_url, drv, reports, v_result, v_pc>>
    /\ UNCHANGED <<bfsVars, interVars, unitVars>>

\* lines 65-72, 94-99: the load fails at the last try
AttemptExhausted_sleeps ==
    /\ v_pc = "loop" /\ VisitLoopGuard(current_try)
    /\ ~LoadPage(drv[current_try + 1])
    /\ RetriesExhausted(current_try + 1)
    /\ nav_attempts' = nav_attempts + 1
    /\ current_try' = current_try + 1
    /\ sleeps' = Append(sleeps, BackoffSeconds)
    /\ reports' = Append(reports, LogError(v_url, TimeoutMessage))
    /\ v_result' = FALSE
    /\ v_pc' = "done"
    /\ UNCHANGED <<v_url, drv>>
    /\ UNCHANGED <<bfsVars, interVars, unitVars>>
AttemptExhausted ==
    /\ v_pc = "loop" /\ VisitLoopGuard(current_try)
    /\ ~LoadPage(drv[current_try + 1])
    /\ RetriesExhausted(current_try + 1)
    /\ nav_attempts' = nav_attempts + 1
    /\ current_try' = current_try + 1
    /\ reports' = Append(reports, LogError(v_url, TimeoutMessage))
    /\ v_result' = FALSE
    /\ v_pc' = "done"
    /\ UNCHANGED <<v_url, drv, sleeps>>
    /\ UNCHANGED <<bfsVars, interVars, unitVars>>

\* lines 65-77, 102-105: the page loads, the screenshot fails; the
\* exception is not a TimeoutException
AttemptError ==
    /\ v_pc = "loop" /\ VisitLoopGuard(current_try)
    /\ LoadPage(drv[current_try + 1])
    /\ drv[current_try + 1] = "shot_fail"
    /\ nav_attempts' = nav_attempts + 1
    /\ reports' = Append(reports, LogError(v_url, "Failed to take screenshot"))
    /\ v_result' = FALSE
    /\ v_pc' = "done"
    /\ UNCHANGED <<v_url, drv, current_try, sleeps>>
    /\ UNCHANGED <<bfsVars, interVars, unitVars>>

\* lines 65-92: the page loads, the screenshot is taken, the visit is logged
AttemptOk ==
    /\ v_pc = "loop" /\ VisitLoopGuard(current_try)
    /\ LoadPage(drv[current_try + 1])
    /\ drv[current_try + 1] = "ok"
    /\ nav_attempts' = nav_attempts + 1
    /\ reports' = Append(reports, LogPageVisit(v_url))
    /\ v_result' = TRUE
    /\ v_pc' = "done"
    /\ UNCHANGED <<v_url, drv, current_try, sleeps>>
    /\ UNCHANGED <<bfsVars, interVars, unitVars>>

VisitNext == AttemptRetry \/ AttemptExhausted \/ AttemptError \/ AttemptOk

----------------------------------------------------------------------------
\* Properties of BFSCrawler._visit_url

\* the driver times out on every navigation attempt
AlwaysTimesOut == \A i \in DOMAIN drv : drv[i] = "timeout"

\* C5: when the driver times out on every attempt, the BFS-mode visit makes
\* exactly max_retries = 3 navigation attempts, returns failure and reports
\* exactly one error, "Timeout after 3 attempts"; never more attempts or
\* reports on the way.
C5_RetryBound ==
    AlwaysTimesOut =>
        /\ nav_attempts <= 3 /\ Len(reports) <= 1
        /\ v_pc = "done" =>
              /\ nav_attempts = 3
              /\ v_result = FALSE
              /\ reports = << LogError(v_url, "Timeout after 3 attempts") >>

C5_Witness ==
    AlwaysTimesOut /\ v_pc = "done" /\ nav_attempts = 3 /\ Len(reports) = 1

\* the driver raised an exception that is not a timeout at this attempt
NonTimeoutError(outcome) == outcome \in {"nav_error", "shot_fail"}

\* C22: when the first attempt of a visit raises an exception that is not
\* a timeout, the visit returns failure at once: one navigation attempt, no
\* backoff, and that error reported once.
C22_FailFast ==
    (v_pc = "done" /\ NonTimeoutError(drv[1])) =>
        /\ nav_attempts = 1
        /\ sleeps = << >>
        /\ v_result = FALSE
        /\ Len(reports) = 1
        /\ reports[1].op = "log_error" /\ reports[1].msg # TimeoutMessage

\* C32: a fixed 2-second wait happens after each timed-out attempt that is
\* followed by another attempt and never after the final attempt: a visit
\* whose 3 attempts all time out waits exactly twice, a visit that succeeds
\* at its first attempt never waits.
C32_Backoff ==
    /\ [](/\ \A i \in 1..Len(sleeps) : sleeps[i] = 2
          /\ v_pc = "loop" => Len(sleeps) = nav_attempts
          /\ (v_pc = "done" /\ nav_attempts > 0) => Len(sleeps) = nav_attempts - 1
          /\ (v_pc = "done" /\ nav_attempts = 3
                /\ \A i \in 1..3 : drv[i] = "timeout") => Len(sleeps) = 2
          /\ (v_pc = "done" /\ drv[1] = "ok") => sleeps = << >>)
    /\ [][(/\ v_pc = "loop" /\ drv[current_try + 1] = "timeout"
            /\ nav_attempts' = nav_attempts + 1 /\ v_pc' = "loop")
               => sleeps' = Append(sleeps, 2)]_vars
    /\ [][sleeps' # sleeps
               => (/\ ~LoadPage(drv[current_try + 1])
                   /\ v_pc' = "loop" /\ VisitLoopGuard(current_try'))]_vars
C32_Witness ==
    /\ v_pc = "done" /\ AlwaysTimesOut
    /\ nav_attempts = 3 /\ sleeps = <<2, 2>>

----------------------------------------------------------------------------
\* InteractiveCrawler (interactive_crawler.py) and CrawlGraph (domain/graph.py)

MaxDecisions == 2

\* URLs as token sequences, so that clean_filename can be computed
IUrls == { <<"http://", "a">>, <<"https://", "a">>,
           <<"http://", "a", "/", "b">>, <<"http://", "a", "_", "b">> }

\* utils.py 6-8: clean_filename removes the schemes and replaces "/" by "_"
RECURSIVE clean_filename(_)
clean_filename(u) ==
    IF u = << >> THEN << >>
    ELSE IF Head(u) \in {"http://", "https://"} THEN clean_filename(Tail(u))
    ELSE << (IF Head(u) = "/" THEN "_" ELSE Head(u)) >> \o clean_filename(Tail(u))

\* the answers of decide_next_action: a decision type, or "None"
Decisions == {"click", "input", "hover", "scroll", "navigate", "None"}
DecisionScripts == UNION {[1..n -> Decisions] : n \in 0..MaxDecisions}

\* interactive_crawler.py 296-314: _load_page catches every exception of
\* the driver and returns False
ILoadPage(outcome) == outcome \notin {"timeout", "nav_error"}

\* interactive_crawler.py 143-149: the Page built by _process_page
MakePage(u, shots) ==
    [page_id |-> <<"page_">> \o clean_filename(u), url |-> u, screenshots |-> shots]

\* domain/page.py 34-62: Page.to_dict reads s.screenshot_id of every
\* screenshot; the screenshots handed over by ScreenshotHandler
\* (screenshot_handler.py 217-222) are dicts, which have no such attribute
PageToDictRaises(page) == page.screenshots > 0

\* json_repository.py 27-37: save_page opens the file for writing, then
\* serializes the page; an exception is logged and leaves the file empty
SavePage(files, page) ==
    Put(files, <<"page_">> \o page.page_id,
        IF PageToDictRaises(page) THEN "empty" ELSE page)

\* domain/graph.py 79-86: the fields of the PageState that
\* interactive_crawler.py line 15 imports (from .domain.graph)
PageStateFields ==
    {"state_id", "page_id", "timestamp", "form_values", "scroll_position",
     "action_history", "dom_changes"}
PageStateRequired ==
    {"state_id", "page_id", "timestamp", "form_values", "scroll_position"}

\* interactive_crawler.py 245-263: the keyword arguments of the
\* constructor call in _create_page_state
CreatePageStateKwargs ==
    {"state_id", "page_id", "url", "timestamp", "screenshot_paths",
     "interactive_elements", "current_scroll_position", "form_values",
     "page_title"}

\* a dataclass constructor raises TypeError on an unexpected keyword and on
\* a missing required field
ConstructorAccepts(kwargs, fields, required) ==
    kwargs \subseteq fields /\ required \subseteq kwargs

\* domain/graph.py 131-133
add_page(pages, page) == Put(pages, page.page_id, page)
\* domain/graph.py 135-138 (the states map)
add_state(states, state) == Put(states, state.state_id, state)

InterIdle ==
    /\ dm = << >> /\ dm_calls = 0 /\ executed = << >> /\ n_shots = 0
    /\ g_pages = EmptyDict /\ g_states = EmptyDict /\ g_edges = << >>
    /\ g_visited_states = {} /\ current_state = "None"
    /\ page_files = EmptyDict /\ processed = FALSE /\ i_pc = "idle"

\* lines 55-59, 113-117, 275-281: crawl(start_url) builds the empty graph
\* and enters _process_page -> _visit_url
InterStart ==
    /\ dm \in DecisionScripts /\ dm_calls = 0 /\ executed = << >>
    /\ n_shots \in 0..1
    /\ g_pages = EmptyDict /\ g_states = EmptyDict /\ g_edges = << >>
    /\ g_visited_states = {} /\ current_state = "None"
    /\ page_files = EmptyDict /\ processed = FALSE /\ i_pc = "visit"
    /\ v_url \in IUrls /\ drv \in DriverScripts
    /\ current_try = 0 /\ nav_attempts = 0 /\ reports = << >> /\ sleeps = << >>
    /\ v_result = "none" /\ v_pc = "loop"

\* lines 278-281, 306-314, 117-118, 60-61: driver.get raises; _load_page
\* returns False, which _visit_url returns at once; _process_page returns
\* (False, None) and crawl returns the empty graph
IVisitFail ==
    /\ i_pc = "visit" /\ VisitLoopGuard(current_try)
    /\ ~ILoadPage(drv[current_try + 1])
    /\ nav_attempts' = nav_attempts + 1
    /\ v_result' = FALSE /\ v_pc' = "done"
    /\ i_pc' = "returned"
    /\ UNCHANGED <<v_url, drv, current_try, reports, sleeps>>
    /\ UNCHANGED interVarsButPc
    /\ UNCHANGED <<bfsVars, unitVars>>

\* lines 278-281, 306-311: the page loads, _visit_url returns True
IVisitOk ==
    /\ i_pc = "visit" /\ VisitLoopGuard(current_try)
    /\ ILoadPage(drv[current_try + 1])
    /\ nav_attempts' = nav_attempts + 1
    /\ v_result' = TRUE /\ v_pc' = "done"
    /\ i_pc' = "shot"
    /\ UNCHANGED <<v_url, drv, current_try, reports, sleeps>>
    /\ UNCHANGED interVarsButPc
    /\ UNCHANGED <<bfsVars, unitVars>>

\* lines 121-123, 60-61: take_full_page_screenshot returns None
IScreenshotFail_pageAdded ==
    /\ i_pc = "shot" /\ drv[current_try + 1] = "shot_fail"
    /\ g_pages' = add_page(g_pages, MakePage(v_url, n_shots))
    /\ i_pc' = "returned"
    /\ UNCHANGED visitVars
    /\ UNCHANGED <<dm, dm_calls, executed, n_shots, g_states, g_edges,
                   g_visited_states, current_state, page_files, processed>>
    /\ UNCHANGED <<bfsVars, unitVars>>
IScreenshotFail ==
    /\ i_pc = "shot" /\ drv[current_try + 1] = "shot_fail"
    /\ i_pc' = "returned"
    /\ UNCHANGED visitVars
    /\ UNCHANGED interVarsButPc
    /\ UNCHANGED <<bfsVars, unitVars>>

\* lines 121-160, 59-65: the screenshot is taken, the Page is built and the
\* visit logged; crawl adds the page to the graph and saves it
IPageProcessed ==
    /\ i_pc = "shot" /\ drv[current_try + 1] = "ok"
    /\ LET page == MakePage(v_url, n_shots)
       IN  /\ reports' = Append(reports, LogPageVisit(v_url))
           /\ g_pages' = add_page(g_pages, page)
           /\ page_files' = SavePage(page_files, page)
    /\ processed' = TRUE
    /\ i_pc' = "seed"
    /\ UNCHANGED <<v_url, drv, current_try, nav_attempts, sleeps, v_result, v_pc>>
    /\ UNCHANGED <<dm, dm_calls, executed, n_shots, g_states, g_edges,
                   g_visited_states, current_state>>
    /\ UNCHANGED <<bfsVars, unitVars>>

\* lines 66-67, 232-263: _create_page_state reads scroll offset and form
\* values and calls the PageState constructor; an exception leaves crawl
\* (line 66 is outside every try).  The interaction loop of lines 70-97
\* starts from i_pc = "loop" only, which the constructor call never
\* lets crawl reach.
ICreatePageState ==
    /\ i_pc = "seed"
    /\ IF ConstructorAccepts(CreatePageStateKwargs, PageStateFields, PageStateRequired)
       THEN LET st == [state_id |-> <<"state_", 0>>,
                       page_id |-> <<"page_">> \o clean_filename(v_url),
                       action_history |-> << >>]
            IN  /\ g_states' = add_state(g_states, st)
                /\ g_visited_states' = g_visited_states \cup {st.state_id}
                /\ current_state' = st.state_id
                /\ i_pc' = "loop"
       ELSE /\ i_pc' = "raised"
            /\ UNCHANGED <<g_states, g_visited_states, current_state>>
    /\ UNCHANGED visitVars
    /\ UNCHANGED <<dm, dm_calls, executed, n_shots, g_pages, g_edges, page_files, processed>>
    /\ UNCHANGED <<bfsVars, unitVars>>

InterNext ==
    IVisitFail \/ IVisitOk \/ IScreenshotFail \/ IPageProcessed \/ ICreatePageState

----------------------------------------------------------------------------
\* Properties of InteractiveCrawler

\* crawl(start_url) is over: it returned the graph or left by an exception
CrawlOver == i_pc \in {"returned", "raised"}

\* C6: when the driver times out on every attempt, the interactive-mode
\* visit makes exactly 3 navigation attempts, returns failure and reports
\* exactly one error, "Timeout after 3 attempts".
C6_InteractiveRetryBound ==
    (AlwaysTimesOut /\ CrawlOver) =>
        /\ nav_attempts = max_retries
        /\ v_result = FALSE
        /\ Len(reports) = 1
        /\ reports[1] = LogError(v_url, "Timeout after 3 attempts")

\* C7: once start_url was processed successfully, the number of PageStates
\* in the graph is 1 + the number of successfully executed actions.
C7_StateCount ==
    (processed /\ CrawlOver) =>
        Cardinality(DOMAIN g_states) = 1 + Len(executed)

\* C9: the number of edges is the number of successfully executed actions;
\* a decision maker answering a click and then None leaves the graph with
\* exactly 2 states and 1 edge.
C9_EdgesMatchActions ==
    (processed /\ CrawlOver) =>
        /\ Len(g_edges) = Len(executed)
        /\ dm = <<"click", "None">> =>
              (Cardinality(DOMAIN g_states) = 2 /\ Len(g_edges) = 1)

\* C31: if start_url cannot be processed into a Page, crawl returns a graph
\* with no pages, no states and no edges, and the DecisionMaker is never
\* consulted.
C31_SeedFailureEmptyGraph ==
    (i_pc = "returned" /\ ~processed) =>
        /\ g_pages = EmptyDict /\ g_states = EmptyDict /\ g_edges = << >>
        /\ g_visited_states = {}
        /\ dm_calls = 0
C31_Witness ==
    /\ i_pc = "returned" /\ ~processed
    /\ v_result = TRUE /\ drv[current_try + 1] = "shot_fail"
    /\ dm = <<"click", "None">>
    /\ g_pages = EmptyDict

----------------------------------------------------------------------------
\* CrawlGraph as an object (domain/graph.py 122-176): constructed empty
\* (interactive_crawler.py 55), then add_page, add_state and add_edge are
\* called with any arguments.  InteractiveCrawler.crawl changes its graph
\* through these three methods only (lines 63, 67, 80, 90).

MaxEdges == 2

\* utils.py 10-11: timestamp_str has a resolution of one second, so the
\* state ids "state_<timestamp>" of one crawl may coincide
StateIds == { <<"state_", 0>>, <<"state_", 1>> }

\* the action types an Edge may carry (a sample of ActionType)
EdgeActions == {"click", "scroll"}

\* domain/graph.py 105-111
Edge(s, t, a) == [source_state_id |-> s, target_state_id |-> t, action |-> a]

\* domain/graph.py 140-142
add_edge_prepended(edges, edge) == << edge >> \o edges
add_edge(edges, edge) == Append(edges, edge)

graphObjVars == <<g_pages, g_states, g_edges, g_visited_states>>
interVarsButGraph == <<dm, dm_calls, executed, n_shots, current_state,
                       page_files, processed, i_pc>>

\* graph.add_page(page), any Page
CallAddPage ==
    /\ \E u \in IUrls, shots \in 0..1 :
          g_pages' = add_page(g_pages, MakePage(u, shots))
    /\ UNCHANGED <<g_states, g_edges, g_visited_states>>
    /\ UNCHANGED <<bfsVars, visitVars, interVarsButGraph, unitVars>>

\* graph.add_state(state), any PageState
CallAddState ==
    /\ \E sid \in StateIds, u \in IUrls :
          LET st == [state_id |-> sid,
                     page_id |-> <<"page_">> \o clean_filename(u),
                     action_history |-> << >>]
          IN  /\ g_states' = add_state(g_states, st)
              /\ g_visited_states' = g_visited_states \cup {st.state_id}
    /\ UNCHANGED <<g_pages, g_edges>>
    /\ UNCHANGED <<bfsVars, visitVars, interVarsButGraph, unitVars>>

\* graph.add_edge(edge), any Edge
CallAddEdge ==
    /\ Len(g_edges) < MaxEdges
    /\ \E s \in StateIds, t \in StateIds, a \in EdgeActions :
          g_edges' = add_edge(g_edges, Edge(s, t, a))
    /\ UNCHANGED <<g_pages, g_states, g_visited_states>>
    /\ UNCHANGED <<bfsVars, visitVars, interVarsButGraph, unitVars>>

GraphNext == CallAddPage \/ CallAddState \/ CallAddEdge

\* the CrawlGraph held in the graph variables; start_url is the url crawl
\* was called with
CurrentGraph ==
    [start_url |-> v_url, pages |-> g_pages, states |-> g_states,
     edges |-> g_edges, visited_states |-> g_visited_states]

\* the methods the entity classes define: Page (domain/page.py 26-62),
\* PageState (domain/graph.py 78-103), Edge (domain/graph.py 105-120)
PageMethods == {"to_dict"}
PageStateMethods == {"to_dict", "add_action", "get_last_action"}
EdgeMethods == {"to_dict"}

\* the result of a call that raised
Raised == [raised |-> TRUE, value |-> << >>]
Returned(v) == [raised |-> FALSE, value |-> v]

\* list(a_set) and set(a_list)
SetToList(S) == CHOOSE order \in Perms(S) : TRUE
ListToSet(l) == {l[i] : i \in DOMAIN l}

\* domain/graph.py 152-160: to_dict serializes every page, state and edge
\* and turns visited_states into a list
GraphToDict(g) ==
    IF \E k \in DOMAIN g.pages : PageToDictRaises(g.pages[k])
    THEN Raised
    ELSE Returned([start_url |-> g.start_url, pages |-> g.pages,
                   states |-> g.states, edges |-> g.edges,
                   visited_states |-> SetToList(g.visited_states)])

\* domain/graph.py 162-176: from_dict calls Page.from_dict,
\* PageState.from_dict and Edge.from_dict for every entry; a class without
\* that method raises AttributeError
GraphFromDict(d) ==
    IF \/ (DOMAIN d.pages # {} /\ "from_dict" \notin PageMethods)
       \/ (DOMAIN d.states # {} /\ "from_dict" \notin PageStateMethods)
       \/ (d.edges # << >> /\ "from_dict" \notin EdgeMethods)
    THEN Raised
    ELSE Returned([start_url |-> d.start_url, pages |-> d.pages,
                   states |-> d.states, edges |-> d.edges,
                   visited_states |-> ListToSet(d.visited_states)])

\* CrawlGraph.from_dict(g.to_dict())
RoundTrip(g) ==
    LET d == GraphToDict(g)
    IN  IF d.raised THEN Raised ELSE GraphFromDict(d.value)

----------------------------------------------------------------------------
\* Properties of CrawlGraph

\* s is an initial part of t
IsPrefix(s, t) == Len(s) <= Len(t) /\ \A i \in 1..Len(s) : t[i] = s[i]

\* C15: the graph is append-only: in every step the key sets of pages and
\* of states lose no element, and the edge list only grows at its end
\* (earlier edges keep their position and content).
C15_AppendOnly ==
    [][ /\ DOMAIN g_pages \subseteq DOMAIN g_pages'
        /\ DOMAIN g_states \subseteq DOMAIN g_states'
        /\ IsPrefix(g_edges, g_edges') ]_vars

\* two pages, two states (one of them added twice) and two different edges
C15_Witness ==
    /\ Cardinality(DOMAIN g_pages) = 2 /\ Cardinality(DOMAIN g_states) = 2
    /\ Len(g_edges) = 2 /\ g_edges[1] # g_edges[2]

\* C16: for every graph a crawl has built, CrawlGraph.from_dict(g.to_dict())
\* succeeds and yields a graph equal to g.
C16_GraphRoundTrip ==
    i_pc \in {"seed", "returned", "raised"} =>
        /\ ~RoundTrip(CurrentGraph).raised
        /\ RoundTrip(CurrentGraph).value = CurrentGraph

\* C20: a Page is immutable once it is in the graph: adding a Page whose
\* page_id is already present leaves the stored Page unchanged.
C20_PageImmutable ==
    [][ \A k \in DOMAIN g_pages :
            k \in DOMAIN g_pages' /\ g_pages'[k] = g_pages[k] ]_vars

\* C39: two different URLs never receive the same page_id, so adding the
\* Page of one URL never replaces the Page of another URL.
C39_PageIdentity ==
    [][ \A k \in DOMAIN g_pages :
            k \in DOMAIN g_pages' /\ g_pages'[k].url = g_pages[k].url ]_vars

----------------------------------------------------------------------------
\* The entities of domain/actions.py and domain/elements.py and their
\* to_dict / from_dict

MaxHistory == 2

\* Optional[...]: None, or a value
None == << >>
Some(v) == << v >>

\* a datetime, with its microseconds
Datetimes == {[sec |-> s, usec |-> us] : s \in 0..1, us \in {0, 5}}

\* datetime.isoformat leaves the fraction out when microsecond is 0;
\* datetime.fromisoformat reads both forms
isoformat(t) == IF t.usec = 0 THEN << t.sec >> ELSE << t.sec, ".", t.usec >>
fromisoformat_seconds(str) == [sec |-> str[1], usec |-> 0]
fromisoformat(str) ==
    IF Len(str) = 1 THEN [sec |-> str[1], usec |-> 0]
    ELSE [sec |-> str[1], usec |-> str[3]]

\* domain/actions.py 6-11: the members of ActionType and their values
ActionTypeValues ==
    [CLICK |-> "click", INPUT |-> "input", HOVER |-> "hover",
     SCROLL |-> "scroll", NAVIGATE |-> "navigate"]
\* ActionType(value)
ActionTypeOf(v) == CHOOSE m \in DOMAIN ActionTypeValues : ActionTypeValues[m] = v

\* domain/actions.py 36-47
Actions ==
    [action_id : {"action_1"}, action_type : DOMAIN ActionTypeValues,
     element_id : {"", "buttons_1"}, timestamp : Datetimes, duration : {1},
     success : BOOLEAN, input_value : {None, Some("text")},
     scroll_position : {None, Some(100)}, url : {None, Some("http://a")},
     error_message : {None, Some("error")}]

\* domain/actions.py 49-61
ActionToDict(a) ==
    [action_id |-> a.action_id,
     action_type |-> ActionTypeValues[a.action_type],
     element_id |-> a.element_id,
     timestamp |-> isoformat(a.timestamp),
     duration |-> a.duration,
     success |-> a.success,
     input_value |-> a.input_value,
     scroll_position |-> a.scroll_position,
     url |-> a.url,
     error_message |-> a.error_message]

\* domain/actions.py 63-77
ActionFromDict(data) ==
    [action_id |-> data.action_id,
     action_type |-> ActionTypeOf(data.action_type),
     element_id |-> data.element_id,
     timestamp |-> fromisoformat(data.timestamp),
     duration |-> data.duration,
     success |-> data.success,
     input_value |-> data.input_value,
     scroll_position |-> data.scroll_position,
     url |-> data.url,
     error_message |-> data.error_message]

\* the actions that the histories of the model's PageStates are made of
HistoryActions ==
    {a \in Actions :
        /\ a.element_id = "buttons_1" /\ a.success /\ a.error_message = None
        /\ a.timestamp = [sec |-> 1, usec |-> 5]
        /\ \/ a.action_type = "CLICK" /\ a.input_value = None
                /\ a.scroll_position = None /\ a.url = None
           \/ a.action_type = "INPUT" /\ a.input_value = Some("text")
                /\ a.scroll_position = None /\ a.url = None}
Histories == UNION {[1..n -> HistoryActions] : n \in 0..MaxHistory}

\* domain/actions.py 124-137
PageStates ==
    [state_id : {"state_1"}, page_id : {"page_a"}, url : {"http://a"},
     timestamp : Datetimes, screenshot_paths : {<< >>, << "section_1.png" >>},
     interactive_elements : {<< >>}, current_scroll_position : {0, 100},
     form_values : {<< >>, << "value" >>}, page_title : {"title"},
     action_history : Histories, dom_changes : {<< >>}]

\* domain/actions.py 139-152
PageStateToDict(st) ==
    [state_id |-> st.state_id,
     page_id |-> st.page_id,
     url |-> st.url,
     timestamp |-> isoformat(st.timestamp),
     screenshot_paths |-> st.screenshot_paths,
     interactive_elements |-> st.interactive_elements,
     current_scroll_position |-> st.current_scroll_position,
     form_values |-> st.form_values,
     page_title |-> st.page_title,
     action_history |-> [i \in DOMAIN st.action_history |->
                            ActionToDict(st.action_history[i])],
     dom_changes |-> st.dom_changes]

\* domain/actions.py 154-168
PageStateFromDict(data) ==
    [state_id |-> data.state_id,
     page_id |-> data.page_id,
     url |-> data.url,
     timestamp |-> fromisoformat(data.timestamp),
     screenshot_paths |-> data.screenshot_paths,
     interactive_elements |-> data.interactive_elements,
     current_scroll_position |-> data.current_scroll_position,
     form_values |-> data.form_values,
     page_title |-> data.page_title,
     action_history |-> [i \in DOMAIN data.action_history |->
                            ActionFromDict(data.action_history[i])],
     dom_changes |-> data.dom_changes]

\* domain/elements.py 5-39
InteractiveElements ==
    [element_id : {"buttons_1", "links_2"}, element_type : {"buttons", "links"},
     tag_name : {"a"}, text : {"text"},
     location : [x : {0, 10}, y : {0}, width : {10}, height : {10}],
     screenshot_section : [start_section : {1}, end_section : {1, 2},
                           spans_sections : BOOLEAN],
     attributes : {<< >>}, is_enabled : BOOLEAN, is_displayed : BOOLEAN,
     has_input_field : BOOLEAN, parent_form_id : {None, Some("form")},
     timestamp : Datetimes]

\* domain/elements.py 41-64
ElementToDict(e) ==
    [element_id |-> e.element_id,
     element_type |-> e.element_type,
     tag_name |-> e.tag_name,
     text |-> e.text,
     location |-> [x |-> e.location.x, y |-> e.location.y,
                   width |-> e.location.width, height |-> e.location.height],
     screenshot_section |->
         [start_section |-> e.screenshot_section.start_section,
          end_section |-> e.screenshot_section.end_section,
          spans_sections |-> e.screenshot_section.spans_sections],
     attributes |-> e.attributes,
     is_enabled |-> e.is_enabled,
     is_displayed |-> e.is_displayed,
     has_input_field |-> e.has_input_field,
     parent_form_id |-> e.parent_form_id,
     timestamp |-> isoformat(e.timestamp)]

\* domain/elements.py 66-83
ElementFromDict(data) ==
    [element_id |-> data.element_id,
     element_type |-> data.element_type,
     tag_name |-> data.tag_name,
     text |-> data.text,
     location |-> [x |-> data.location.x, y |-> data.location.y,
                   width |-> data.location.width, height |-> data.location.height],
     screenshot_section |->
         [start_section |-> data.screenshot_section.start_section,
          end_section |-> data.screenshot_section.end_section,
          spans_sections |-> data.screenshot_section.spans_sections],
     attributes |-> data.attributes,
     is_enabled |-> data.is_enabled,
     is_displayed |-> data.is_displayed,
     has_input_field |-> data.has_input_field,
     parent_form_id |-> data.parent_form_id,
     timestamp |-> fromisoformat(data.timestamp)]

\* an entity with its class
Entities ==
    {[class |-> "Action", obj |-> a] : a \in Actions}
        \cup {[class |-> "PageState", obj |-> st] : st \in PageStates}
        \cup {[class |-> "InteractiveElement", obj |-> e] : e \in InteractiveElements}

EntityStart == u_arg \in Entities /\ u_res = << >> /\ u_pc = "object"

\* x.to_dict()
CallToDict ==
    /\ u_pc = "object"
    /\ u_res' = CASE u_arg.class = "Action" -> ActionToDict(u_arg.obj)
                  [] u_arg.class = "PageState" -> PageStateToDict(u_arg.obj)
                  [] OTHER -> ElementToDict(u_arg.obj)
    /\ u_pc' = "dict"
    /\ UNCHANGED u_arg
    /\ UNCHANGED <<bfsVars, visitVars, interVars>>

\* cls.from_dict(data)
CallFromDict ==
    /\ u_pc = "dict"
    /\ u_res' = CASE u_arg.class = "Action" -> ActionFromDict(u_res)
                  [] u_arg.class = "PageState" -> PageStateFromDict(u_res)
                  [] OTHER -> ElementFromDict(u_res)
    /\ u_pc' = "restored"
    /\ UNCHANGED u_arg
    /\ UNCHANGED <<bfsVars, visitVars, interVars>>

EntityNext == CallToDict \/ CallFromDict

----------------------------------------------------------------------------
\* The state_id of a new PageState (interactive_crawler.py 242-243,
\* utils.py 10-11)

MaxSeconds == 3

\* the values of datetime.now(), and their order
ClockValues == {[sec |-> s, usec |-> us] : s \in 0..MaxSeconds, us \in {0, 5}}
Later(t1, t2) == t1.sec < t2.sec \/ (t1.sec = t2.sec /\ t1.usec < t2.usec)

\* utils.py 10-11: strftime("%Y%m%d_%H%M%S") leaves the microseconds out
timestamp_str(now) == now.sec

\* interactive_crawler.py 243: state_id = f"state_{timestamp_str()}"
NewStateId(now) == << "state_", timestamp_str(now) >>

\* u_arg is the clock, u_res the state ids created so far with the time of
\* their creation, the graph is empty
StateIdStart ==
    /\ u_arg \in ClockValues /\ u_res = << >> /\ u_pc = "clock"

\* time passes
ClockTick ==
    /\ \E t \in ClockValues : Later(u_arg, t) /\ u_arg' = t
    /\ UNCHANGED <<u_res, u_pc>>
    /\ UNCHANGED <<bfsVars, visitVars, interVars>>

\* a PageState gets its state_id (interactive_crawler.py 243) and is added
\* to the graph (domain/graph.py 135-138), some time after the one before
CreateState ==
    /\ u_res # << >> => Later(u_res[Len(u_res)].at, u_arg)
    /\ \E u \in IUrls :
          LET st == [state_id |-> NewStateId(u_arg),
                     page_id |-> <<"page_">> \o clean_filename(u),
                     action_history |-> << >>]
          IN  /\ g_states' = add_state(g_states, st)
              /\ g_visited_states' = g_visited_states \cup {st.state_id}
              /\ u_res' = Append(u_res, [state_id |-> st.state_id, at |-> u_arg])
    /\ UNCHANGED <<u_arg, u_pc>>
    /\ UNCHANGED <<g_pages, g_edges>>
    /\ UNCHANGED <<bfsVars, visitVars, interVarsButGraph>>

StateIdNext == ClockTick \/ CreateState

----------------------------------------------------------------------------
\* Action.from_decision (domain/graph.py, domain/actions.py) and
\* InteractiveCrawler._execute_action (interactive_crawler.py)

\* the five decision classes; domain/actions.py 13-32 and
\* domain/decisions.py 15-34 each define their own
DecisionClasses ==
    {"InputAction", "ClickAction", "HoverAction", "ScrollAction", "NavigateAction"}
DecisionModules == {"actions", "decisions"}

\* the decision objects: the attributes are those of the dataclass, so a
\* ScrollAction or a NavigateAction has no element_id; the last one stands
\* for an object of an unsupported type
DecisionObjects ==
    UNION {
        [module : {m}, class : {"InputAction"},
         element_id : {"buttons_1", "links_2"}, input_value : {"text"}]
        \cup [module : {m}, class : {"ClickAction", "HoverAction"},
              element_id : {"buttons_1", "links_2"}]
        \cup [module : {m}, class : {"ScrollAction"}, position : {0, 100}]
        \cup [module : {m}, class : {"NavigateAction"},
              url : {"http://a", "http://b"}]
        : m \in DecisionModules }
    \cup {[module |-> "builtins", class |-> "str"]}

\* isinstance(decision, C), C being the class of that name in module m
IsInstance(decision, m, c) == decision.module = m /\ decision.class = c

\* the exception of a call that raised
RaisedWith(exc) == [raised |-> TRUE, value |-> exc]

\* the fields of Action (domain/graph.py 8-18, domain/actions.py 36-47)
ActionFields ==
    {"action_id", "action_type", "element_id", "timestamp", "duration",
     "success", "input_value", "scroll_position", "url", "error_message"}
ActionRequired ==
    {"action_id", "action_type", "element_id", "timestamp", "duration", "success"}

\* cls(k1=v1, ..., **common_args): a keyword given twice and a missing
\* required field raise TypeError; the other fields default to None
ConstructAction(explicit, common) ==
    IF DOMAIN explicit \cap DOMAIN common # {} THEN RaisedWith("TypeError")
    ELSE IF ~ConstructorAccepts(DOMAIN explicit \cup DOMAIN common,
                                ActionFields, ActionRequired)
    THEN RaisedWith("TypeError")
    ELSE LET given(f) == IF f \in DOMAIN explicit THEN explicit[f] ELSE common[f]
             opt(f) == IF f \in DOMAIN explicit THEN Some(explicit[f]) ELSE None
         IN  Returned([action_id |-> given("action_id"),
                       action_type |-> given("action_type"),
                       element_id |-> given("element_id"),
                       timestamp |-> given("timestamp"),
                       duration |-> given("duration"),
                       success |-> given("success"),
                       input_value |-> opt("input_value"),
                       scroll_position |-> opt("scroll_position"),
                       url |-> opt("url"),
                       error_message |-> None])

\* the module whose decision classes an implementation of from_decision
\* tests against: domain/graph.py 5 imports them from .decisions,
\* domain/actions.py defines them itself
DecisionModuleOf(impl) == IF impl = "graph" THEN "decisions" ELSE "actions"

\* common_args: domain/graph.py 37-42; domain/actions.py 82-88, which adds
\* 'element_id': ''
CommonArgs(impl, action_id, now, duration, success) ==
    IF impl = "graph"
    THEN [action_id |-> action_id, timestamp |-> now, duration |-> duration,
          success |-> success]
    ELSE [action_id |-> action_id, timestamp |-> now, duration |-> duration,
          success |-> success, element_id |-> ""]

\* Action.from_decision: domain/graph.py 34-76 (impl = "graph") and
\* domain/actions.py 79-122 (impl = "actions")
from_decision(impl, action_id, decision, duration, success, now) ==
    LET m == DecisionModuleOf(impl)
        common == CommonArgs(impl, action_id, now, duration, success)
    IN  IF IsInstance(decision, m, "InputAction")
        THEN ConstructAction([action_type |-> "INPUT",
                              element_id |-> decision.element_id,
                              input_value |-> decision.input_value], common)
        ELSE IF IsInstance(decision, m, "ClickAction")
        THEN ConstructAction([action_type |-> "CLICK",
                              element_id |-> decision.element_id], common)
        ELSE IF IsInstance(decision, m, "HoverAction")
        THEN ConstructAction([action_type |-> "HOVER",
                              element_id |-> decision.element_id], common)
        ELSE IF IsInstance(decision, m, "ScrollAction")
        THEN ConstructAction([action_type |-> "SCROLL",
                              scroll_position |-> decision.position], common)
        ELSE IF IsInstance(decision, m, "NavigateAction")
        THEN ConstructAction([action_type |-> "NAVIGATE",
                              url |-> decision.url], common)
        ELSE RaisedWith("ValueError")

\* the return value of _execute_action; logged is what logging.error got
ExecResult(success, new_state, action_result, logged) ==
    [success |-> success, new_state |-> new_state,
     action_result |-> action_result, logged |-> logged]
ExecFailed(logged) == ExecResult(FALSE, None, None, logged)

\* interactive_crawler.py 178-198: the action is handed to the driver;
\* the classes tested are those of domain/actions.py (line 17).  op_ok: the
\* driver performs the operation.  The result is "done", "failed" or the
\* exception raised.
PerformAction(decision, op_ok) ==
    IF \/ IsInstance(decision, "actions", "ClickAction")
       \/ IsInstance(decision, "actions", "InputAction")
       \/ IsInstance(decision, "actions", "HoverAction")
    THEN (IF op_ok THEN "done" ELSE "failed")
    ELSE IF IsInstance(decision, "actions", "ScrollAction")
    THEN (IF "element_id" \notin DOMAIN decision THEN "AttributeError"
          ELSE IF op_ok THEN "done" ELSE "failed")
    ELSE IF IsInstance(decision, "actions", "NavigateAction")
    THEN (IF op_ok THEN "done" ELSE "WebDriverException")
    ELSE "failed"

\* interactive_crawler.py 166-220
execute_action(decision, op_ok, process_ok, now) ==
    LET performed == PerformAction(decision, op_ok)
        action_result ==
            from_decision("graph", "action_1", decision, 1, TRUE, now)
    IN  IF performed = "failed" THEN ExecFailed("Failed to execute action")
        ELSE IF performed # "done" THEN ExecFailed(performed)
        ELSE IF ~process_ok THEN ExecFailed("")
        ELSE IF action_result.raised THEN ExecFailed(action_result.value)
        ELSE IF ~ConstructorAccepts(CreatePageStateKwargs, PageStateFields,
                                    PageStateRequired)
        THEN ExecFailed("TypeError")
        ELSE ExecResult(TRUE, Some([state_id |-> NewStateId(now)]),
                        Some(action_result.value), "")

DecisionStart ==
    /\ u_arg \in [decision : DecisionObjects, impl : {"graph", "actions"},
                  op_ok : BOOLEAN, process_ok : BOOLEAN, now : Datetimes]
    /\ u_res = << >> /\ u_pc = "ready"

\* Action.from_decision(action_id, decision, duration, success)
CallFromDecision ==
    /\ u_pc = "ready"
    /\ u_res' = from_decision(u_arg.impl, "action_1", u_arg.decision, 1, TRUE,
                              u_arg.now)
    /\ u_pc' = "from_decision"
    /\ UNCHANGED u_arg
    /\ UNCHANGED <<bfsVars, visitVars, interVars>>

\* self._execute_action(action)
CallExecuteAction ==
    /\ u_pc = "ready"
    /\ u_res' = execute_action(u_arg.decision, u_arg.op_ok, u_arg.process_ok,
                               u_arg.now)
    /\ u_pc' = "executed"
    /\ UNCHANGED u_arg
    /\ UNCHANGED <<bfsVars, visitVars, interVars>>

DecisionNext == CallFromDecision \/ CallExecuteAction

\* the action type of each decision class
TypeOfDecision ==
    [InputAction |-> "INPUT", ClickAction |-> "CLICK", HoverAction |-> "HOVER",
     ScrollAction |-> "SCROLL", NavigateAction |-> "NAVIGATE"]

\* C29: for each of the five action types, when the driver performs the
\* operation and the resulting page is processed, _execute_action reports
\* success and returns a new PageState and an Action of that type.
C29_ExecuteActionSucceeds ==
    (/\ u_pc = "executed"
     /\ u_arg.decision.module = "actions"
     /\ u_arg.decision.class \in DecisionClasses
     /\ u_arg.op_ok /\ u_arg.process_ok) =>
        /\ u_res.success
        /\ u_res.new_state # None
        /\ u_res.action_result # None
        /\ u_res.action_result[1].action_type = TypeOfDecision[u_arg.decision.class]

\* C30: from_decision returns, for each of the five decision classes, an
\* Action of the matching type that carries the decision's element_id
\* (click, input, hover) and its input_value, scroll position or url; it
\* raises for an unsupported decision type only.
C30_FromDecision ==
    u_pc = "from_decision" =>
        LET d == u_arg.decision
        IN  IF d.class \in DecisionClasses
            THEN d.module = DecisionModuleOf(u_arg.impl) =>
                   /\ ~u_res.raised
                   /\ u_res.value.action_type = TypeOfDecision[d.class]
                   /\ d.class \in {"ClickAction", "InputAction", "HoverAction"}
                        => u_res.value.element_id = d.element_id
                   /\ d.class = "InputAction"
                        => u_res.value.input_value = Some(d.input_value)
                   /\ d.class = "ScrollAction"
                        => u_res.value.scroll_position = Some(d.position)
                   /\ d.class = "NavigateAction"
                        => u_res.value.url = Some(d.url)
            ELSE u_res = RaisedWith("ValueError")

----------------------------------------------------------------------------
\* DOMActions: the scan of a page and the resolution of an element_id
\* (dom_actions.py)

MaxElements == 2

\* the elements a page is made of.  tag names the selectors the element
\* matches: button is <button>, a_href is <a href=...>, a is an <a> without
\* href, input_text is <input type='text'>.  Nothing in the code writes a
\* data-element-id attribute, so the pages carry none.
Elements ==
    [tag : {"button"}, visible : BOOLEAN, data_element_id : {None}]
    \cup [tag : {"a_href", "a", "input_text", "select"}, visible : {TRUE},
          data_element_id : {None}]

\* a page: its elements in document order; an element is known by its
\* position in the page
Pages == UNION {[1..n -> Elements] : n \in 0..MaxElements}

\* the categories of find_interactive_elements, in the order of the dict,
\* with the tags their selector matches (dom_actions.py 125-160)
ScanSelectors ==
    << [element_type |-> "buttons", tags |-> {"button"}],
       [element_type |-> "links", tags |-> {"a_href"}],
       [element_type |-> "text_inputs", tags |-> {"input_text"}],
       [element_type |-> "select_inputs", tags |-> {"select"}] >>

\* the selectors find_element_by_id tries for an element type, each with the
\* tags it matches (dom_actions.py 372-378)
ResolveSelectors(element_type) ==
    IF element_type = "buttons" THEN << {"button"} >>
    ELSE IF element_type = "links" THEN << {"a_href", "a"} >>
    ELSE IF element_type = "text_inputs" THEN << {"input_text"} >>
    ELSE << >>

\* driver.find_elements(By.CSS_SELECTOR, selector): the matching elements
\* in document order, the hidden ones too
RECURSIVE FindFrom(_, _, _)
FindFrom(page, tags, i) ==
    IF i > Len(page) THEN << >>
    ELSE (IF page[i].tag \in tags THEN << i >> ELSE << >>)
         \o FindFrom(page, tags, i + 1)
find_elements(page, tags) == FindFrom(page, tags, 1)

\* is_effectively_visible(element)
is_effectively_visible(page, node) == page[node].visible

\* element_id=f"{element_type}_{element_count}"; rsplit('_', 1) at line 369
\* takes it apart into the same two parts
ElementId(element_type, element_count) ==
    [element_type |-> element_type, number |-> element_count]

\* find_interactive_elements from category c on, element_count being the
\* number of the ids given so far in this scan (dom_actions.py 243-306)
RECURSIVE ScanFrom(_, _, _)
ScanFrom(page, c, element_count) ==
    IF c > Len(ScanSelectors) THEN << >>
    ELSE LET elements == find_elements(page, ScanSelectors[c].tags)
             visible_elements ==
                 SelectSeq(elements, LAMBDA n : is_effectively_visible(page, n))
             found == [k \in 1..Len(visible_elements) |->
                          [element_id |-> ElementId(ScanSelectors[c].element_type,
                                                    element_count + k),
                           node |-> visible_elements[k]]]
         IN  found \o ScanFrom(page, c + 1, element_count + Len(visible_elements))

\* element_count = 0 at the start of every scan (dom_actions.py 244)
find_interactive_elements(page) == ScanFrom(page, 1, 0)

\* find_element(By.CSS_SELECTOR, '[data-element-id="..."]')
\* (dom_actions.py 20-30, 363)
find_element(page, element_id) ==
    LET elements == SelectSeq([i \in 1..Len(page) |-> i],
                        LAMBDA n : page[n].data_element_id = Some(element_id))
    IN  IF elements = << >> THEN None ELSE Some(Head(elements))

\* elements.extend(find_elements(selector)) for each selector (381-383)
RECURSIVE ExtendAll(_, _, _)
ExtendAll(page, selectors, s) ==
    IF s > Len(selectors) THEN << >>
    ELSE find_elements(page, selectors[s]) \o ExtendAll(page, selectors, s + 1)

\* dom_actions.py 359-394
find_element_by_id(page, element_id) ==
    LET element == find_element(page, element_id)
        elements == ExtendAll(page, ResolveSelectors(element_id.element_type), 1)
        index == element_id.number - 1
    IN  IF element # None THEN element
        ELSE IF 0 <= index /\ index < Len(elements)
        THEN Some(elements[index + 1])
        ELSE None

\* a scan: the page that was scanned and the elements found on it
ScanOf(page) == [page |-> page, elements |-> find_interactive_elements(page)]

\* the driver is on a page; last is the latest scan, resolved the latest
\* resolution
DomStart ==
    /\ u_arg \in Pages
    /\ u_res = [last |-> ScanOf(<< >>), resolved |-> << >>]
    /\ u_pc = "loaded"

\* driver.get: the driver moves to another page
DomNavigate ==
    /\ u_pc \in {"scanned", "resolved"}
    /\ \E page \in Pages : u_arg' = page
    /\ u_pc' = "loaded"
    /\ UNCHANGED u_res
    /\ UNCHANGED <<bfsVars, visitVars, interVars>>

\* dom_actions.find_interactive_elements()
DomScan ==
    /\ u_pc \in {"loaded", "scanned", "resolved"}
    /\ u_res' = [last |-> ScanOf(u_arg), resolved |-> << >>]
    /\ u_pc' = "scanned"
    /\ UNCHANGED u_arg
    /\ UNCHANGED <<bfsVars, visitVars, interVars>>

\* click_by_id / input_text_by_id / hover_by_id (396-415) on an id of the
\* last scan, the page being the one that was scanned
DomResolve ==
    /\ u_pc \in {"scanned", "resolved"}
    /\ \E k \in 1..Len(u_res.last.elements) :
          u_res' = [u_res EXCEPT !.resolved =
                       << [element_id |-> u_res.last.elements[k].element_id,
                           element |-> find_element_by_id(u_arg,
                                           u_res.last.elements[k].element_id)] >>]
    /\ u_pc' = "resolved"
    /\ UNCHANGED u_arg
    /\ UNCHANGED <<bfsVars, visitVars, interVars>>

DomNext == DomNavigate \/ DomScan \/ DomResolve

\* C24: resolving an element_id of the last scan of the unchanged page
\* returns the element the scan gave that id to, in every category.
C24_ElementResolution ==
    u_pc = "resolved" =>
        \A k \in 1..Len(u_res.last.elements) :
            u_res.last.elements[k].element_id = u_res.resolved[1].element_id =>
                u_res.resolved[1].element = Some(u_res.last.elements[k].node)

\* C25: no two scanned elements have the same element_id, within one scan
\* or across the scans of two pages; an element is a position in a page.
ScannedBy(scan) ==
    {[page |-> scan.page, node |-> scan.elements[k].node,
      element_id |-> scan.elements[k].element_id] :
     k \in 1..Len(scan.elements)}
C25_ElementIdUnique ==
    [][\A e1 \in ScannedBy(u_res.last) :
        \A e2 \in ScannedBy(u_res.last) \cup ScannedBy(u_res'.last) :
            e1.element_id = e2.element_id =>
                e1.page = e2.page /\ e1.node = e2.node]_vars

----------------------------------------------------------------------------
\* A scan in which the driver fails (dom_actions.py 243-306)

\* where the driver raises during a scan: in the category element_type, at
\* the query (at = 0) or while the at-th visible element is inspected
\* (get_attribute, text, location, ...); None: it does not raise
ScanFailures ==
    {None} \cup
    {Some([element_type |-> ScanSelectors[c].element_type, at |-> k]) :
        c \in 1..Len(ScanSelectors), k \in 0..MaxElements}

\* the visible elements of category c
VisibleOf(page, c) ==
    SelectSeq(find_elements(page, ScanSelectors[c].tags),
              LAMBDA n : is_effectively_visible(page, n))

\* the failure happens in category c of this page
FailsIn(page, c, fail) ==
    /\ fail # None
    /\ fail[1].element_type = ScanSelectors[c].element_type
    /\ fail[1].at <= Len(VisibleOf(page, c))

\* lines 246-304, from category c on: the dict interactive_elements.  The
\* body of the loop is inside try; the except clause records the category
\* with an empty list (303) and the loop goes on.  element_count has been
\* incremented (254) for the elements inspected before the exception.
RECURSIVE ScanDictFrom(_, _, _, _)
ScanDictFrom(page, c, element_count, fail) ==
    IF c > Len(ScanSelectors) THEN EmptyDict
    ELSE LET element_type == ScanSelectors[c].element_type
             visible_elements == VisibleOf(page, c)
             counted == IF FailsIn(page, c, fail) THEN fail[1].at
                        ELSE Len(visible_elements)
             found == [k \in 1..Len(visible_elements) |->
                          [element_id |-> ElementId(element_type, element_count + k),
                           node |-> visible_elements[k]]]
             rest == ScanDictFrom(page, c + 1, element_count + counted, fail)
         IN  IF FailsIn(page, c, fail) THEN Put(rest, element_type, << >>)
             ELSE IF visible_elements # << >> THEN Put(rest, element_type, found)
             ELSE rest

\* find_interactive_elements() with a driver that may fail: what the call
\* returns
find_interactive_elements_aborting(page, fail) ==
    IF \E c \in 1..Len(ScanSelectors) : FailsIn(page, c, fail)
    THEN RaisedWith("WebDriverException")
    ELSE Returned(ScanDictFrom(page, 1, 0, fail))
find_interactive_elements_failing(page, fail) ==
    Returned(ScanDictFrom(page, 1, 0, fail))

ScanStart ==
    /\ u_arg \in [page : Pages, fail : ScanFailures]
    /\ u_res = << >> /\ u_pc = "page"

\* dom_actions.find_interactive_elements()
CallScan ==
    /\ u_pc = "page"
    /\ u_res' = find_interactive_elements_failing(u_arg.page, u_arg.fail)
    /\ u_pc' = "scanned"
    /\ UNCHANGED u_arg
    /\ UNCHANGED <<bfsVars, visitVars, interVars>>

ScanNext == CallScan

\* the elements a dict holds for a category
NodesOf(dict, element_type) ==
    IF element_type \in DOMAIN dict
    THEN [k \in 1..Len(dict[element_type]) |-> dict[element_type][k].node]
    ELSE << >>

----------------------------------------------------------------------------
\* JsonRepository.save_graph and load_graph (repository/json_repository.py)

\* the graphs handed to save_graph: empty, or holding the Page of start_url
SavedGraphs ==
    UNION {
        {[start_url |-> u, pages |-> pages, states |-> EmptyDict,
          edges |-> << >>, visited_states |-> {}] :
            pages \in {EmptyDict} \cup
                      {add_page(EmptyDict, MakePage(u, shots)) : shots \in 0..1}}
        : u \in IUrls }

\* json_repository.py 53:
\* f"graph_{clean_filename(graph.start_url)}_{graph.timestamp.strftime('%Y%m%d_%H%M%S')}.json"
SaveGraphFilename(url, timestamp) ==
    <<"graph_">> \o clean_filename(url)
        \o <<"_", timestamp_str(timestamp), ".json">>
\* json_repository.py 65: f"graph_{clean_filename(start_url)}.json"
LoadGraphFilename(url) ==
    <<"graph_">> \o clean_filename(url) \o <<".json">>

\* json_repository.py 51-61: the file is opened for writing, then the graph
\* is serialized; an exception leaves the file empty (None) and gives False
save_graph(files, g, timestamp) ==
    LET d == GraphToDict(g)
    IN  [files |-> Put(files, SaveGraphFilename(g.start_url, timestamp),
                       IF d.raised THEN None ELSE Some(d.value)),
         result |-> ~d.raised]

\* json_repository.py 63-73: a missing file, an empty file and a failing
\* from_dict all end in the except clause, which returns None
load_graph(files, url) ==
    LET filename == LoadGraphFilename(url)
    IN  IF filename \notin DOMAIN files THEN None
        ELSE IF files[filename] = None THEN None
        ELSE IF GraphFromDict(files[filename][1]).raised THEN None
        ELSE Some(GraphFromDict(files[filename][1]).value)

\* a repository over an empty graphs directory (json_repository.py 13-25)
RepoStart ==
    /\ u_arg \in [graph : SavedGraphs, timestamp : Datetimes]
    /\ u_res = [files |-> EmptyDict, saved |-> FALSE, loaded |-> None]
    /\ u_pc = "new"

\* repository.save_graph(g)
CallSaveGraph ==
    /\ u_pc = "new"
    /\ LET s == save_graph(u_res.files, u_arg.graph, u_arg.timestamp)
       IN  u_res' = [u_res EXCEPT !.files = s.files, !.saved = s.result]
    /\ u_pc' = "saved"
    /\ UNCHANGED u_arg
    /\ UNCHANGED <<bfsVars, visitVars, interVars>>

\* repository.load_graph(g.start_url)
CallLoadGraph ==
    /\ u_pc = "saved"
    /\ u_res' = [u_res EXCEPT !.loaded =
                    load_graph(u_res.files, u_arg.graph.start_url)]
    /\ u_pc' = "loaded"
    /\ UNCHANGED u_arg
    /\ UNCHANGED <<bfsVars, visitVars, interVars>>

RepoNext == CallSaveGraph \/ CallLoadGraph

\* C38: after save_graph(g) has returned True, load_graph(g.start_url)
\* returns a graph equal to g, not None.
C38_SaveLoadGraph ==
    (u_pc = "loaded" /\ u_res.saved) => u_res.loaded = Some(u_arg.graph)

----------------------------------------------------------------------------
\* Content materialization and the scans of a page
\* (screenshot_handler.py, bfs_crawler.py, interactive_crawler.py)

MaxHeight == 3
MaxGrowth == 3

\* the document heights of a lazily loading page, in viewport heights:
\* heights[k + 1] is the height after k scrolls to the bottom, the last
\* entry the height the page keeps from then on
HeightScripts == UNION {[1..n -> 1..MaxHeight] : n \in 1..MaxGrowth}

\* document.body.scrollHeight after `scrolls` scrolls to the bottom
ScrollHeight(heights, scrolls) ==
    heights[IF scrolls + 1 <= Len(heights) THEN scrolls + 1 ELSE Len(heights)]

\* screenshot_handler.py 56, bfs_crawler.py 164:
\* (total_height + height - 1) // height, with a viewport of height 1
NumSections(total_height) == ((total_height + 1) - 1) \div 1

\* the scroll offset after the loop over the sections
\* (screenshot_handler.py 72-76, 204-209; bfs_crawler.py 172-177)
OffsetAfterSections(offset, total_height) ==
    IF NumSections(total_height) = 0 THEN offset
    ELSE (NumSections(total_height) - 1) * 1

\* find_interactive_elements() is called: what the model keeps of a scan is
\* the scroll offset and whether the page had been scrolled through
RecordScan(r) ==
    [r EXCEPT !.scans = Append(@, [offset |-> r.offset,
                                   materialized |-> r.materialized])]

\* the page is loaded (_visit_url / _load_page returned True): no scroll
\* yet, the viewport at the top
ScrollStart ==
    /\ u_arg \in [mode : {"bfs", "interactive"}, heights : HeightScripts]
    /\ u_res = [readings |-> << >>, scrolls |-> 0, offset |-> 0,
                materialized |-> FALSE, scans |-> << >>]
    /\ u_pc = "loaded"

\* bfs_crawler.py 75, 137-161: BFSCrawler._take_full_page_screenshot reads
\* the dimensions and has ElementTracker.save_page_elements scan the page
\* (element_tracker.py 38); BFSCrawler has no ScreenshotHandler
BfsTrackerScan ==
    /\ u_pc = "loaded" /\ u_arg.mode = "bfs"
    /\ u_res' = RecordScan(u_res)
    /\ u_pc' = "sections"
    /\ UNCHANGED u_arg
    /\ UNCHANGED <<bfsVars, visitVars, interVars>>

\* screenshot_handler.py 35, 239: take_full_page_screenshot enters
\* _scroll_through_page; last_height is read
ReadFirstHeight ==
    /\ u_pc = "loaded" /\ u_arg.mode = "interactive"
    /\ u_res' = [u_res EXCEPT !.readings =
                    << ScrollHeight(u_arg.heights, u_res.scrolls) >>]
    /\ u_pc' = "loop"
    /\ UNCHANGED u_arg
    /\ UNCHANGED <<bfsVars, visitVars, interVars>>

\* screenshot_handler.py 241-250: scroll to the bottom, read new_height;
\* it differs from last_height, which it replaces
ScrollAgain ==
    /\ u_pc = "loop"
    /\ LET new_height == ScrollHeight(u_arg.heights, u_res.scrolls + 1)
           last_height == u_res.readings[Len(u_res.readings)]
       IN  /\ new_height # last_height
           /\ u_res' = [u_res EXCEPT !.scrolls = @ + 1,
                                     !.offset = new_height,
                                     !.readings = Append(@, new_height)]
    /\ UNCHANGED <<u_arg, u_pc>>
    /\ UNCHANGED <<bfsVars, visitVars, interVars>>

\* screenshot_handler.py 241-248: new_height == last_height, break
ScrollStable ==
    /\ u_pc = "loop"
    /\ LET new_height == ScrollHeight(u_arg.heights, u_res.scrolls + 1)
           last_height == u_res.readings[Len(u_res.readings)]
       IN  /\ new_height = last_height
           /\ u_res' = [u_res EXCEPT !.scrolls = @ + 1,
                                     !.offset = new_height,
                                     !.readings = Append(@, new_height)]
    /\ u_pc' = "top"
    /\ UNCHANGED u_arg
    /\ UNCHANGED <<bfsVars, visitVars, interVars>>

\* screenshot_handler.py 252: window.scrollTo(0, 0)
ScrollTop ==
    /\ u_pc = "top"
    /\ u_res' = [u_res EXCEPT !.offset = 0, !.materialized = TRUE]
    /\ u_pc' = "scan"
    /\ UNCHANGED u_arg
    /\ UNCHANGED <<bfsVars, visitVars, interVars>>

\* screenshot_handler.py 63-67: the elements of the url are not in the
\* repository yet, the page is scanned
HandlerScan ==
    /\ u_pc = "scan"
    /\ u_res' = RecordScan(u_res)
    /\ u_pc' = "sections"
    /\ UNCHANGED u_arg
    /\ UNCHANGED <<bfsVars, visitVars, interVars>>

\* screenshot_handler.py 72-76, bfs_crawler.py 172-192: one screenshot per
\* section, the viewport scrolled to each
TakeSections ==
    /\ u_pc = "sections"
    /\ u_res' = [u_res EXCEPT !.offset =
                    OffsetAfterSections(@, ScrollHeight(u_arg.heights,
                                                        u_res.scrolls))]
    /\ u_pc' = "shot"
    /\ UNCHANGED u_arg
    /\ UNCHANGED <<bfsVars, visitVars, interVars>>

\* bfs_crawler.py 39 and interactive_crawler.py 126: _process_page scans
\* the page once the screenshots are taken
ProcessPageScan ==
    /\ u_pc = "shot"
    /\ u_res' = RecordScan(u_res)
    /\ u_pc' = "processed"
    /\ UNCHANGED u_arg
    /\ UNCHANGED <<bfsVars, visitVars, interVars>>

ScrollNext ==
    \/ BfsTrackerScan \/ ReadFirstHeight \/ ScrollAgain \/ ScrollStable
    \/ ScrollTop \/ HandlerScan \/ TakeSections \/ ProcessPageScan

\* no two consecutive readings among the first n are equal
NoEqualPair(readings, n) ==
    \A i \in 1..(n - 1) : readings[i] # readings[i + 1]

\* the loop stops at the first two consecutive readings that are equal
StopsAtFirstEqualPair ==
    /\ u_pc = "loop" => NoEqualPair(u_res.readings, Len(u_res.readings))
    /\ (u_arg.mode = "interactive" /\ u_pc \notin {"loaded", "loop"}) =>
          LET n == Len(u_res.readings)
          IN  /\ n >= 2 /\ u_res.readings[n] = u_res.readings[n - 1]
              /\ NoEqualPair(u_res.readings, n - 1)

\* C33: the scroll-to-bottom loop stops at the first two consecutive equal
\* height readings, terminates when the height stabilizes, and the viewport
\* is back at offset 0, the content materialized, when elements are scanned.
C33_MaterializedBeforeScan ==
    /\ [](u_pc \in {"loaded", "loop", "top", "scan", "sections", "shot",
                    "processed"} => StopsAtFirstEqualPair)
    /\ (u_pc = "loop") ~> (u_pc = "top")
    /\ [](u_pc \in {"sections", "shot", "processed"} =>
            \A k \in 1..Len(u_res.scans) :
                u_res.scans[k].materialized /\ u_res.scans[k].offset = 0)

----------------------------------------------------------------------------
\* BaseCrawler.crawl on every site
Init == BfsStart /\ VisitIdle /\ InterIdle /\ UnitIdle
Next == BfsNext
Spec == Init /\ [][Next]_vars
\* the loop of crawl keeps running: a step is taken whenever one is possible
FairSpec == Spec /\ WF_vars(Next)

\* BaseCrawler.crawl on every site, the reporting sink raising at will
ReporterSpec == Init /\ [][ReporterNext]_vars

\* BFSCrawler._visit_url on every driver behaviour
VisitInit == VisitStart /\ BfsIdle /\ InterIdle /\ UnitIdle
VisitSpec == VisitInit /\ [][VisitNext]_vars

\* InteractiveCrawler.crawl on every start url, driver and decision maker
InterInit == InterStart /\ BfsIdle /\ UnitIdle
InterSpec == InterInit /\ [][InterNext]_vars

\* a CrawlGraph under every sequence of add_page, add_state, add_edge
GraphInit == BfsIdle /\ VisitIdle /\ InterIdle /\ UnitIdle
GraphSpec == GraphInit /\ [][GraphNext]_vars

\* to_dict then from_dict on every entity
EntityInit == EntityStart /\ BfsIdle /\ VisitIdle /\ InterIdle
EntitySpec == EntityInit /\ [][EntityNext]_vars

\* from_decision and _execute_action on every decision object
DecisionInit == DecisionStart /\ BfsIdle /\ VisitIdle /\ InterIdle
DecisionSpec == DecisionInit /\ [][DecisionNext]_vars

\* scans and resolutions on every page
DomInit == DomStart /\ BfsIdle /\ VisitIdle /\ InterIdle
DomSpec == DomInit /\ [][DomNext]_vars

\* state ids created as time passes
StateIdInit == StateIdStart /\ BfsIdle /\ VisitIdle /\ InterIdle
StateIdSpec == StateIdInit /\ [][StateIdNext]_vars

\* one scan of every page, with every failure of the driver
ScanInit == ScanStart /\ BfsIdle /\ VisitIdle /\ InterIdle
ScanSpec == ScanInit /\ [][ScanNext]_vars

\* save_graph then load_graph on every graph
RepoInit == RepoStart /\ BfsIdle /\ VisitIdle /\ InterIdle
RepoSpec == RepoInit /\ [][RepoNext]_vars

\* the scrolls and scans of one page visit; every step is a statement of
\* the running crawler and is taken
ScrollInit == ScrollStart /\ BfsIdle /\ VisitIdle /\ InterIdle
ScrollFairSpec == ScrollInit /\ [][ScrollNext]_vars /\ WF_vars(ScrollNext)

====
